---- MODULE Spec2Model ----
(***************************************************************************)
(* Model of PyNUT_Py3.PyNUTClient (scripts/python/module/PyNUT_Py3.py):    *)
(* a client session for the line-oriented NUT protocol.  Strings are       *)
(* sequences of one-character strings; a Python value carries its type     *)
(* (str or bytes) so that encode/decode, str-vs-bytes comparison and the   *)
(* transport's type checks behave as in Python 3.  Each operation of the   *)
(* class is one action that runs the whole method against the transport.   *)
(***************************************************************************)
EXTENDS FiniteSets, Integers, Sequences, TLC

VARIABLES
    self,     \* the object's private fields
    state,    \* lifecycle of the session object
    inbuf,    \* bytes the server has sent that the client has not read yet
    log,      \* transport events (writes and reads) of the current call
    last,     \* the current call: operation, arguments, server script, outcome
    pc,       \* the caller: "idle", "returned" (holding a result) or "hung"
    outstanding,  \* the last transport event of the session was a write
    prev      \* the call the caller still held the result of when it made
              \* the current one: its transport events and its outcome

vars == <<self, state, inbuf, log, last, pc, outstanding, prev>>

-----------------------------------------------------------------------------
(* Bounds of the model *)

\* most body lines in one list block
MaxRecs == 2
\* most unread bytes left in the stream at which the caller still issues a call
MaxPending == 16

-----------------------------------------------------------------------------
(* String literals of the source *)

NL ==
    <<"\n">>
QUOTE ==
    "\""
SPACE ==
    " "
None ==
    <<"None">>
\* 'USERNAME ' (line 88)
L_USERNAME_ ==
    <<"U", "S", "E", "R", "N", "A", "M", "E", " ">>
\* 'PASSWORD ' (line 94)
L_PASSWORD_ ==
    <<"P", "A", "S", "S", "W", "O", "R", "D", " ">>
\* 'OK' (line 90)
L_OK ==
    <<"O", "K">>
\* 'LIST UPS\n' (line 106)
L_LIST_UPS ==
    <<"L", "I", "S", "T", " ", "U", "P", "S", "\n">>
\* 'BEGIN LIST UPS\n' (line 108)
L_BEGIN_LIST_UPS ==
    <<"B", "E", "G", "I", "N", " ", "L", "I", "S", "T", " ", "U", "P", "S", "\n">>
\* 'END LIST UPS\n' (line 111)
L_END_LIST_UPS ==
    <<"E", "N", "D", " ", "L", "I", "S", "T", " ", "U", "P", "S", "\n">>
\* 'UPS' (line 115)
L_UPS ==
    <<"U", "P", "S">>
\* 'LIST VAR ' (line 130)
L_LIST_VAR_ ==
    <<"L", "I", "S", "T", " ", "V", "A", "R", " ">>
\* 'BEGIN LIST VAR ' (line 132)
L_BEGIN_LIST_VAR_ ==
    <<"B", "E", "G", "I", "N", " ", "L", "I", "S", "T", " ", "V", "A", "R", " ">>
\* 'END LIST VAR ' (line 138)
L_END_LIST_VAR_ ==
    <<"E", "N", "D", " ", "L", "I", "S", "T", " ", "V", "A", "R", " ">>
\* 'VAR ' (line 139)
L_VAR_ ==
    <<"V", "A", "R", " ">>
\* 'ERR' (line 133)
L_ERR ==
    <<"E", "R", "R">>
\* 'LIST CMD ' (line 158)
L_LIST_CMD_ ==
    <<"L", "I", "S", "T", " ", "C", "M", "D", " ">>
\* 'BEGIN LIST CMD ' (line 160)
L_BEGIN_LIST_CMD_ ==
    <<"B", "E", "G", "I", "N", " ", "L", "I", "S", "T", " ", "C", "M", "D", " ">>
\* 'END LIST CMD ' (line 164)
L_END_LIST_CMD_ ==
    <<"E", "N", "D", " ", "L", "I", "S", "T", " ", "C", "M", "D", " ">>
\* 'CMD ' (line 165)
L_CMD_ ==
    <<"C", "M", "D", " ">>
\* 'GET CMDDESC ' (line 173)
L_GET_CMDDESC_ ==
    <<"G", "E", "T", " ", "C", "M", "D", "D", "E", "S", "C", " ">>
\* 'CMDDESC' (line 175)
L_CMDDESC ==
    <<"C", "M", "D", "D", "E", "S", "C">>
\* 'CMDDESC ' (line 178)
L_CMDDESC_ ==
    <<"C", "M", "D", "D", "E", "S", "C", " ">>
\* 'LIST RW ' (line 195)
L_LIST_RW_ ==
    <<"L", "I", "S", "T", " ", "R", "W", " ">>
\* 'BEGIN LIST RW ' (line 197)
L_BEGIN_LIST_RW_ ==
    <<"B", "E", "G", "I", "N", " ", "L", "I", "S", "T", " ", "R", "W", " ">>
\* 'END LIST RW ' (line 200)
L_END_LIST_RW_ ==
    <<"E", "N", "D", " ", "L", "I", "S", "T", " ", "R", "W", " ">>
\* 'VAR' (line 201)
L_VAR ==
    <<"V", "A", "R">>
\* 'SET VAR ' (line 224)
L_SET_VAR_ ==
    <<"S", "E", "T", " ", "V", "A", "R", " ">>
\* 'OK\n' (line 226)
L_OK_NL ==
    <<"O", "K", "\n">>
\* 'INSTCMD ' (line 241)
L_INSTCMD_ ==
    <<"I", "N", "S", "T", "C", "M", "D", " ">>
\* 'MASTER ' (line 256)
L_MASTER_ ==
    <<"M", "A", "S", "T", "E", "R", " ">>
\* 'OK MASTER-GRANTED\n' (line 258)
L_OK_MASTER_GRANTED ==
    <<"O", "K", " ", "M", "A", "S", "T", "E", "R", "-", "G", "R", "A", "N", "T", "E", "D", "\n">>
\* 'Master level function are not available' (line 259)
L_MasterUnavailable ==
    <<"M", "a", "s", "t", "e", "r", " ", "l", "e", "v", "e", "l", " ", "f", "u", "n", "c", "t", "i", "o", "n", " ", "a", "r", "e", " ", "n", "o", "t", " ", "a", "v", "a", "i", "l", "a", "b", "l", "e">>
\* 'FSD ' (line 263)
L_FSD_ ==
    <<"F", "S", "D", " ">>
\* 'OK FSD-SET\n' (line 265)
L_OK_FSD_SET ==
    <<"O", "K", " ", "F", "S", "D", "-", "S", "E", "T", "\n">>
\* 'HELP\n' (line 277)
L_HELP ==
    <<"H", "E", "L", "P", "\n">>
\* 'VER\n' (line 287)
L_VER ==
    <<"V", "E", "R", "\n">>
\* 'LIST CLIENTS ' (line 302)
L_LIST_CLIENTS_ ==
    <<"L", "I", "S", "T", " ", "C", "L", "I", "E", "N", "T", "S", " ">>
\* 'LIST CLIENTS\n' (line 304)
L_LIST_CLIENTS ==
    <<"L", "I", "S", "T", " ", "C", "L", "I", "E", "N", "T", "S", "\n">>
\* 'BEGIN LIST CLIENTS\n' (line 306)
L_BEGIN_LIST_CLIENTS ==
    <<"B", "E", "G", "I", "N", " ", "L", "I", "S", "T", " ", "C", "L", "I", "E", "N", "T", "S", "\n">>
\* 'END LIST CLIENTS\n' (line 309)
L_END_LIST_CLIENTS ==
    <<"E", "N", "D", " ", "L", "I", "S", "T", " ", "C", "L", "I", "E", "N", "T", "S", "\n">>
\* 'CLIENT' (line 313)
L_CLIENT ==
    <<"C", "L", "I", "E", "N", "T">>
\* ' is not a valid UPS' (line 299)
L__is_not_a_valid_UPS ==
    <<" ", "i", "s", " ", "n", "o", "t", " ", "a", " ", "v", "a", "l", "i", "d", " ", "U", "P", "S">>
\* 'LOGOUT\n' (line 73)
L_LOGOUT ==
    <<"L", "O", "G", "O", "U", "T", "\n">>

-----------------------------------------------------------------------------
(* Python values and string operations *)

Str(d) == [t |-> "str", d |-> d]
Bytes(d) == [t |-> "bytes", d |-> d]

\* str.encode('ascii') and bytes.decode('ascii') on ASCII text
Encode(s) == Bytes(s.d)
Decode(b) == Str(b.d)

\* "%s" % b for a bytes object b inside a str format: the repr of b
BytesRepr(b) == <<"b", "'">> \o b.d \o <<"'">>

Min(a, b) == IF a < b THEN a ELSE b
Max(a, b) == IF a > b THEN a ELSE b

\* a slice bound i of a sequence of length n, as Python clamps it
PyIdx(n, i) == IF i < 0 THEN Max(n + i, 0) ELSE Min(i, n)

\* s[i:j]
Slice(s, i, j) ==
    LET a == PyIdx(Len(s), i)
        b == PyIdx(Len(s), j)
    IN  IF a >= b THEN <<>> ELSE SubSeq(s, a + 1, b)

\* s[i:]
SliceFrom(s, i) == Slice(s, i, Len(s))

\* s[:j]
SliceTo(s, j) == Slice(s, 0, j)

\* bytes.find / str.find, 1-based, 0 when absent
Find(s, d) ==
    LET hits == {i \in 1..(Len(s) - Len(d) + 1) : SubSeq(s, i, i + Len(d) - 1) = d}
    IN  IF hits = {} THEN 0 ELSE CHOOSE i \in hits : \A j \in hits : i <= j

\* s.split(c) for a one-character separator c
RECURSIVE Split(_, _)
Split(s, c) ==
    LET i == Find(s, <<c>>)
    IN  IF i = 0 THEN <<s>>
        ELSE <<SubSeq(s, 1, i - 1)>> \o Split(SubSeq(s, i + 1, Len(s)), c)

\* s.replace(c, "") for a one-character c
Remove(s, c) == SelectSeq(s, LAMBDA x : x # c)

\* dict assignment d[k] = v
DictSet(d, k, v) == [x \in DOMAIN d \cup {k} |-> IF x = k THEN v ELSE d[x]]

EmptyDict == <<>>

-----------------------------------------------------------------------------
(* Results of a method call *)

NoRet == [type |-> "none", str |-> <<>>, dict |-> EmptyDict]
RetStr(d) == [type |-> "str", str |-> d, dict |-> EmptyDict]
RetDict(m) == [type |-> "dict", str |-> <<>>, dict |-> m]

Return(v) == [kind |-> "return", exc |-> "", msg |-> <<>>, ret |-> v]
Raise(e, m) == [kind |-> "raise", exc |-> e, msg |-> m, ret |-> NoRet]
Hang == [kind |-> "hang", exc |-> "", msg |-> <<>>, ret |-> NoRet]

\* the outcome of a call whose transport primitive failed with tr.exc
TransportFailure(tr) == IF tr.exc = "Hang" THEN Hang ELSE Raise(tr.exc, <<>>)

-----------------------------------------------------------------------------
(* The transport: telnetlib.Telnet as the class uses it.  tr.resps is the  *)
(* server's script: its k-th element is what the server sends in answer to *)
(* the k-th line written during the call.                                  *)

Transport(buf, resps) ==
    [inbuf |-> buf, log |-> <<>>, resps |-> resps, exc |-> "", data |-> Bytes(<<>>)]

\* Telnet.write(buffer): a str buffer fails in "IAC in buffer" with TypeError
Write(tr, v) ==
    IF v.t # "bytes" THEN [tr EXCEPT !.exc = "TypeError"]
    ELSE [tr EXCEPT !.log = Append(@, [t |-> "w", data |-> v.d]),
                    !.inbuf = IF tr.resps = <<>> THEN @ ELSE @ \o Head(tr.resps),
                    !.resps = IF tr.resps = <<>> THEN <<>> ELSE Tail(@)]

\* Telnet.read_until(match, timeout): the bytes up to and including match;
\* with a timeout, whatever arrived when it expires; without one it blocks
ReadUntil(tr, match, timeout) ==
    IF match.t # "bytes" THEN [tr EXCEPT !.exc = "TypeError"]
    ELSE LET i == Find(tr.inbuf, match.d)
             n == i + Len(match.d) - 1
         IN  IF i # 0
             THEN [tr EXCEPT !.data = Bytes(SubSeq(tr.inbuf, 1, n)),
                             !.inbuf = SubSeq(@, n + 1, Len(@)),
                             !.log = Append(@, [t |-> "r", data |-> SubSeq(tr.inbuf, 1, n)])]
             ELSE IF timeout
             THEN [tr EXCEPT !.data = Bytes(tr.inbuf),
                             !.inbuf = <<>>,
                             !.log = Append(@, [t |-> "r", data |-> tr.inbuf])]
             ELSE [tr EXCEPT !.exc = "Hang"]

\* write one line, then read one line: the exchange every method starts with
Exchange(tr, line, timeout) ==
    LET w == Write(tr, line)
    IN  IF w.exc # "" THEN w ELSE ReadUntil(w, Bytes(NL), timeout)

-----------------------------------------------------------------------------
(* __connect (lines 77-97) *)

\* variant: the answer compared with the whole line "OK\n"
AuthRejected_Exact(result) == result # Str(L_OK_NL)

\* result[:2] != "OK"
AuthRejected(result) == Slice(result.d, 0, 2) # L_OK

\* one handshake step: write the line, read the answer, require OK
AuthStep(tr, line) ==
    LET r == Exchange(tr, line, TRUE)
        result == Decode(r.data)
    IN  IF r.exc # "" THEN [tr |-> r, out |-> TransportFailure(r)]
        ELSE IF AuthRejected(result)
        THEN [tr |-> r, out |-> Raise("PyNUTError", Remove(result.d, "\n"))]
        ELSE [tr |-> r, out |-> Return(NoRet)]

PasswordStep(tr, password) ==
    IF password # None
    THEN AuthStep(tr, Encode(Str(L_PASSWORD_ \o password \o NL)))
    ELSE [tr |-> tr, out |-> Return(NoRet)]

Connect(tr, login, password) ==
    IF login # None
    THEN LET u == AuthStep(tr, Bytes(L_USERNAME_ \o Encode(Str(login)).d \o NL))
         IN  IF u.out.kind # "return" THEN u ELSE PasswordStep(u.tr, password)
    ELSE PasswordStep(tr, password)

-----------------------------------------------------------------------------
(* SetRWVar (216-229), RunUPSCommand (231-246), FSD (248-268),             *)
(* help (270-278), ver (280-288)                                           *)

SetRWVarError(result) == Raise("PyNUTError", result.d)

SetRWVar(tr, ups, var, value) ==
    LET r == Exchange(tr, Bytes(L_SET_VAR_ \o Encode(Str(ups)).d \o <<SPACE>>
                                 \o Encode(Str(var)).d \o <<SPACE>>
                                 \o Encode(Str(value)).d \o NL), FALSE)
        result == Decode(r.data)
    IN  IF r.exc # "" THEN [tr |-> r, out |-> TransportFailure(r)]
        ELSE IF result = Str(L_OK_NL)
        THEN [tr |-> r, out |-> Return(RetStr(L_OK))]
        ELSE [tr |-> r, out |-> SetRWVarError(result)]

RunUPSCommand(tr, ups, command) ==
    LET r == Exchange(tr, Bytes(L_INSTCMD_ \o Encode(Str(ups)).d \o <<SPACE>>
                                 \o Encode(Str(command)).d \o NL), FALSE)
        result == Decode(r.data)
    IN  IF r.exc # "" THEN [tr |-> r, out |-> TransportFailure(r)]
        ELSE IF result = Str(L_OK_NL)
        THEN [tr |-> r, out |-> Return(RetStr(L_OK))]
        ELSE [tr |-> r, out |-> Raise("PyNUTError", Remove(result.d, "\n"))]

\* variant: any answer starting with OK taken as the grant
MasterRefused_Prefix(result) == Slice(result.d, 0, 2) # L_OK

\* result != "OK MASTER-GRANTED\n"
MasterRefused(result) == result # Str(L_OK_MASTER_GRANTED)

\* the second step: the line is built as a str from the bytes device name
FSDSecondStep(tr, ups_ascii) ==
    LET r == Exchange(tr, Str(L_FSD_ \o BytesRepr(ups_ascii) \o NL), FALSE)
        result == Decode(r.data)
    IN  IF r.exc # "" THEN [tr |-> r, out |-> TransportFailure(r)]
        ELSE IF result = Str(L_OK_FSD_SET)
        THEN [tr |-> r, out |-> Return(RetStr(L_OK))]
        ELSE [tr |-> r, out |-> Raise("PyNUTError", Remove(result.d, "\n"))]

FSD(tr, ups) ==
    LET ups_ascii == Encode(Str(ups))
        r == Exchange(tr, Bytes(L_MASTER_ \o ups_ascii.d \o NL), FALSE)
        result == Decode(r.data)
    IN  IF r.exc # "" THEN [tr |-> r, out |-> TransportFailure(r)]
        ELSE IF MasterRefused(result)
        THEN [tr |-> r, out |-> Raise("PyNUTError", L_MasterUnavailable)]
        ELSE FSDSecondStep(r, ups_ascii)

help(tr) ==
    LET r == Exchange(tr, Bytes(L_HELP), FALSE)
    IN  IF r.exc # "" THEN [tr |-> r, out |-> TransportFailure(r)]
        ELSE [tr |-> r, out |-> Return(RetStr(Decode(r.data).d))]

\* the read passes a str delimiter to the transport
ver(tr) ==
    LET w == Write(tr, Bytes(L_VER))
        r == IF w.exc # "" THEN w ELSE ReadUntil(w, Str(NL), FALSE)
    IN  IF r.exc # "" THEN [tr |-> r, out |-> TransportFailure(r)]
        ELSE [tr |-> r, out |-> Return(RetStr(Decode(r.data).d))]

-----------------------------------------------------------------------------
(* GetUPSList (lines 99-119) *)

\* variant: the closing quote kept
UPSLineFields_KeepQuote(line) == SliceFrom(line, 4)

\* line[4:-1]: the line without its "UPS " prefix and its last character
UPSLineFields(line) == Slice(line, 4, -1)

\* the loop over result.split("\n"); "ups, desc = ..." needs exactly two parts
RECURSIVE UPSListLoop(_, _)
UPSListLoop(lines, ups_list) ==
    IF lines = <<>> THEN [exc |-> "", dict |-> ups_list]
    ELSE LET line == Head(lines)
             parts == Split(UPSLineFields(line), QUOTE)
         IN  IF SliceTo(line, 3) # L_UPS THEN UPSListLoop(Tail(lines), ups_list)
             ELSE IF Len(parts) # 2 THEN [exc |-> "ValueError", dict |-> ups_list]
             ELSE UPSListLoop(Tail(lines),
                              DictSet(ups_list, Remove(parts[1], SPACE), parts[2]))

\* variant: the mapping of the previous enumeration kept and handed out again
\* without a request
GetUPSList_Cached(tr) ==
    LET r == Exchange(tr, Bytes(L_LIST_UPS), FALSE)
        result == Decode(r.data)
        b == ReadUntil(r, Bytes(L_END_LIST_UPS), FALSE)
        parsed == UPSListLoop(Split(Decode(b.data).d, "\n"), EmptyDict)
    IN  IF last.op = "GetUPSList" /\ last.out.kind = "return"
        THEN [tr |-> tr, out |-> last.out]
        ELSE IF r.exc # "" THEN [tr |-> r, out |-> TransportFailure(r)]
        ELSE IF result # Str(L_BEGIN_LIST_UPS)
        THEN [tr |-> r, out |-> Raise("PyNUTError", Remove(result.d, "\n"))]
        ELSE IF b.exc # "" THEN [tr |-> b, out |-> TransportFailure(b)]
        ELSE IF parsed.exc # "" THEN [tr |-> b, out |-> Raise(parsed.exc, <<>>)]
        ELSE [tr |-> b, out |-> Return(RetDict(parsed.dict))]

GetUPSList(tr) ==
    LET r == Exchange(tr, Bytes(L_LIST_UPS), FALSE)
        result == Decode(r.data)
        b == ReadUntil(r, Bytes(L_END_LIST_UPS), FALSE)
        parsed == UPSListLoop(Split(Decode(b.data).d, "\n"), EmptyDict)
    IN  IF r.exc # "" THEN [tr |-> r, out |-> TransportFailure(r)]
        ELSE IF result # Str(L_BEGIN_LIST_UPS)
        THEN [tr |-> r, out |-> Raise("PyNUTError", Remove(result.d, "\n"))]
        ELSE IF b.exc # "" THEN [tr |-> b, out |-> TransportFailure(b)]
        ELSE IF parsed.exc # "" THEN [tr |-> b, out |-> Raise(parsed.exc, <<>>)]
        ELSE [tr |-> b, out |-> Return(RetDict(parsed.dict))]

-----------------------------------------------------------------------------
(* GetUPSVars (lines 121-147) and GetRWVars (lines 187-214) *)

\* variant: spaces removed before the split instead of from the name only
VarLineParts_Unspaced(current, offset) ==
    Split(Remove(SliceFrom(current, offset), SPACE), QUOTE)

\* current[offset:].split('"')
VarLineParts(current, offset) == Split(SliceFrom(current, offset), QUOTE)

\* the loop body: var is part 0 without spaces, data is part 1 (IndexError
\* when the line has no quote); the loop stops at the first exception
RECURSIVE VarLoop(_, _, _)
VarLoop(lines, offset, vars_) ==
    IF lines = <<>> THEN [exc |-> "", dict |-> vars_]
    ELSE LET parts == VarLineParts(Head(lines), offset)
         IN  IF Len(parts) < 2 THEN [exc |-> "IndexError", dict |-> vars_]
             ELSE VarLoop(Tail(lines), offset,
                          DictSet(vars_, Remove(parts[1], SPACE), parts[2]))

\* end_offset = 0 - ( len( "END LIST <KIND> %s\n" % ups ) + 1 )
EndOffset(endline) == 0 - (Len(endline) + 1)

\* variant: the mismatch raised, as the other list operations do
GetUPSVarsMismatch_Raise(tr) ==
    [tr |-> tr, out |-> Raise("PyNUTError", Remove(tr.data.d, "\n"))]

\* the value returned on a BEGIN-line mismatch
GetUPSVarsMismatch(tr) == [tr |-> tr, out |-> Return(RetStr(L_ERR))]

GetUPSVars(tr, ups) ==
    LET ups_ascii == Encode(Str(ups))
        r == Exchange(tr, Bytes(L_LIST_VAR_ \o ups_ascii.d \o NL), FALSE)
        result == Decode(r.data)
        b == ReadUntil(r, Bytes(L_END_LIST_VAR_ \o ups_ascii.d \o NL), FALSE)
        offset == Len(L_VAR_ \o ups \o <<SPACE>>)
        end_offset == EndOffset(L_END_LIST_VAR_ \o ups \o NL)
        parsed == VarLoop(Split(SliceTo(Decode(b.data).d, end_offset), "\n"),
                          offset, EmptyDict)
    IN  IF r.exc # "" THEN [tr |-> r, out |-> TransportFailure(r)]
        ELSE IF result # Str(L_BEGIN_LIST_VAR_ \o ups \o NL)
        THEN GetUPSVarsMismatch(r)
        ELSE IF b.exc # "" THEN [tr |-> b, out |-> TransportFailure(b)]
        ELSE IF parsed.exc # "" THEN [tr |-> b, out |-> Raise(parsed.exc, <<>>)]
        ELSE [tr |-> b, out |-> Return(RetDict(parsed.dict))]

\* the whole loop sits in try/except: an exception ends it and is dropped
GetRWVars(tr, ups) ==
    LET ups_ascii == Encode(Str(ups))
        r == Exchange(tr, Bytes(L_LIST_RW_ \o ups_ascii.d \o NL), FALSE)
        result == Decode(r.data)
        b == ReadUntil(r, Bytes(L_END_LIST_RW_ \o ups_ascii.d \o NL), FALSE)
        offset == Len(L_VAR \o <<SPACE>> \o ups)
        end_offset == EndOffset(L_END_LIST_RW_ \o ups \o NL)
        parsed == VarLoop(Split(SliceTo(Decode(b.data).d, end_offset), "\n"),
                          offset, EmptyDict)
    IN  IF r.exc # "" THEN [tr |-> r, out |-> TransportFailure(r)]
        ELSE IF result # Str(L_BEGIN_LIST_RW_ \o ups \o NL)
        THEN [tr |-> r, out |-> Raise("PyNUTError", Remove(result.d, "\n"))]
        ELSE IF b.exc # "" THEN [tr |-> b, out |-> TransportFailure(b)]
        ELSE [tr |-> b, out |-> Return(RetDict(parsed.dict))]

-----------------------------------------------------------------------------
(* GetUPSCommands (lines 149-185) *)

\* temp[:7] != "CMDDESC": temp is the undecoded bytes line, the literal a str
CmdDescMismatch(temp) == Bytes(SliceTo(temp.d, 7)) # Str(L_CMDDESC)

\* the description of one command (lines 172-181).  Every exception in the
\* try block gives desc = var: the PyNUTError of line 176, and the TypeError
\* of bytes.split(str) on line 179.
CmdDesc(temp, ups, var) ==
    IF CmdDescMismatch(temp) THEN var
    ELSE var

\* the loop over the names: one description query per name
RECURSIVE CmdLoop(_, _, _, _, _)
CmdLoop(tr, lines, ups, offset, ups_cmds) ==
    IF lines = <<>> THEN [tr |-> tr, out |-> Return(RetDict(ups_cmds))]
    ELSE LET var == Remove(Split(SliceFrom(Head(lines), offset), QUOTE)[1], SPACE)
             r == Exchange(tr, Bytes(L_GET_CMDDESC_ \o Encode(Str(ups)).d
                                      \o Encode(Str(var)).d \o NL), FALSE)
         IN  IF r.exc = "Hang" THEN [tr |-> r, out |-> Hang]
             ELSE CmdLoop(r, Tail(lines), ups, offset,
                          DictSet(ups_cmds, var, CmdDesc(r.data, ups, var)))

GetUPSCommands(tr, ups) ==
    LET ups_ascii == Encode(Str(ups))
        r == Exchange(tr, Bytes(L_LIST_CMD_ \o ups_ascii.d \o NL), FALSE)
        result == Decode(r.data)
        b == ReadUntil(r, Bytes(L_END_LIST_CMD_ \o ups_ascii.d \o NL), FALSE)
        offset == Len(L_CMD_ \o ups \o <<SPACE>>)
        end_offset == EndOffset(L_END_LIST_CMD_ \o ups \o NL)
    IN  IF r.exc # "" THEN [tr |-> r, out |-> TransportFailure(r)]
        ELSE IF result # Str(L_BEGIN_LIST_CMD_ \o ups \o NL)
        THEN [tr |-> r, out |-> Raise("PyNUTError", Remove(result.d, "\n"))]
        ELSE IF b.exc # "" THEN [tr |-> b, out |-> TransportFailure(b)]
        ELSE CmdLoop(b, Split(SliceTo(Decode(b.data).d, end_offset), "\n"),
                     ups, offset, EmptyDict)

-----------------------------------------------------------------------------
(* ListClients (lines 290-320) *)

\* the loop over result.split("\n"); "host, ups = ..." needs exactly two parts
RECURSIVE ClientsLoop(_, _)
ClientsLoop(lines, ups_list) ==
    IF lines = <<>> THEN [exc |-> "", dict |-> ups_list]
    ELSE LET line == Head(lines)
             parts == Split(SliceFrom(line, 7), SPACE)
         IN  IF SliceTo(line, 6) # L_CLIENT THEN ClientsLoop(Tail(lines), ups_list)
             ELSE IF Len(parts) # 2 THEN [exc |-> "ValueError", dict |-> ups_list]
             ELSE LET host == parts[1]
                      ups == parts[2]
                      old == IF ups \in DOMAIN ups_list THEN ups_list[ups] ELSE <<>>
                  IN  ClientsLoop(Tail(lines), DictSet(ups_list, ups, Append(old, host)))

\* lines 301-320: the request proper.  The return on line 320 is indented one
\* column short of the method body; it is read as the method's return.
ListClientsRequest(tr, ups, ups_ascii) ==
    LET r == Exchange(tr, IF ups # <<>> THEN Bytes(L_LIST_CLIENTS_ \o ups_ascii.d \o NL)
                          ELSE Bytes(L_LIST_CLIENTS), FALSE)
        result == Decode(r.data)
        b == ReadUntil(r, Bytes(L_END_LIST_CLIENTS), FALSE)
        parsed == ClientsLoop(Split(Decode(b.data).d, "\n"), EmptyDict)
    IN  IF r.exc # "" THEN [tr |-> r, out |-> TransportFailure(r)]
        ELSE IF result # Str(L_BEGIN_LIST_CLIENTS)
        THEN [tr |-> r, out |-> Raise("PyNUTError", Remove(result.d, "\n"))]
        ELSE IF b.exc # "" THEN [tr |-> b, out |-> TransportFailure(b)]
        ELSE IF parsed.exc # "" THEN [tr |-> b, out |-> Raise(parsed.exc, <<>>)]
        ELSE [tr |-> b, out |-> Return(RetDict(parsed.dict))]

\* variant: the lookup made but its result not consulted
UnknownUPS_Never(ups, ups_list) == FALSE

\* ups not in self.GetUPSList()
UnknownUPS(ups, ups_list) == ups \notin DOMAIN ups_list

\* lines 294-299: ups.encode fails on None; a non-empty ups is looked up with
\* a device enumeration on the same transport
ListClients(tr, ups) ==
    IF ups = None THEN [tr |-> tr, out |-> Raise("AttributeError", <<>>)]
    ELSE IF ups = <<>> THEN ListClientsRequest(tr, ups, Encode(Str(ups)))
    ELSE LET known == GetUPSList(tr)
         IN  IF known.out.kind # "return" THEN known
             ELSE IF UnknownUPS(ups, known.out.ret.dict)
             THEN [tr |-> known.tr,
                   out |-> Raise("PyNUTError", ups \o L__is_not_a_valid_UPS)]
             ELSE ListClientsRequest(known.tr, ups, Encode(Str(ups)))

-----------------------------------------------------------------------------
(* __init__ (lines 45-67) and __del__ (lines 70-75) *)

\* the class attributes before __init__ runs (lines 33-39)
ClassDefaults ==
    [debug |-> None, host |-> None, port |-> None, login |-> None,
     password |-> None, timeout |-> None, srv_handler |-> None]

\* the fields once __init__ has run; __connect binds the transport handle
\* unless telnetlib.Telnet(host, port) itself fails
InitFields(login, password, connected) ==
    [debug |-> <<"False">>, host |-> <<"127.0.0.1">>, port |-> <<"3493">>,
     login |-> login, password |-> password, timeout |-> <<"5">>,
     srv_handler |-> IF connected THEN <<"Telnet">> ELSE None]

Construct(tr, login, password, connected) ==
    IF ~connected THEN [tr |-> tr, out |-> Raise("OSError", <<>>)]
    ELSE Connect(tr, login, password)

\* try: self.__srv_handler.write( "LOGOUT\n" ) except: pass
Del(tr, srv_handler) ==
    LET w == IF srv_handler = None THEN [tr EXCEPT !.exc = "AttributeError"]
             ELSE Write(tr, Str(L_LOGOUT))
    IN  [tr |-> [w EXCEPT !.exc = ""], out |-> Return(NoRet)]

-----------------------------------------------------------------------------
(* The environment: callers' arguments and the server's answers.  The      *)
(* server's lines follow the wire format of upsd.                          *)

Logins == {None, <<"u">>}
Passwords == {None, <<"p">>}
Devs == {<<"d">>, <<"e">>}
Names == {<<"a">>, <<"b">>}
Hosts == {<<"h">>, <<"i">>}
SetValues == {<<"1">>}

\* free-text values: empty, leading and trailing space, embedded space,
\* embedded quote
Vals == {<<>>, <<" ", "x", " ">>, <<"x", " ", "x">>, <<"x", "\"", "x">>}

ERR_ACCESS_DENIED ==
    <<"E", "R", "R", " ", "A", "C", "C", "E", "S", "S", "-", "D", "E", "N", "I", "E", "D", "\n">>
ERR_INVALID_VALUE ==
    <<"E", "R", "R", " ", "I", "N", "V", "A", "L", "I", "D", "-", "V", "A", "L", "U", "E", "\n">>

\* single-line answers
SrvLines == {L_OK_NL, L_OK_MASTER_GRANTED, L_OK_FSD_SET, ERR_ACCESS_DENIED, ERR_INVALID_VALUE}

\* sequences of at most MaxRecs records drawn from S
RecSeqs(S) == UNION {[1..n -> S] : n \in 0..MaxRecs}

RECURSIVE Flatten(_)
Flatten(lines) == IF lines = <<>> THEN <<>> ELSE Head(lines) \o Flatten(Tail(lines))

Join(recs, Line(_)) == Flatten([i \in 1..Len(recs) |-> Line(recs[i])])

Quoted(v) == <<QUOTE>> \o v \o <<QUOTE>>

\* UPS <id> "<desc>"
UPSLine(rec) == L_UPS \o <<SPACE>> \o rec[1] \o <<SPACE>> \o Quoted(rec[2]) \o NL
UPSBody(recs) == Join(recs, UPSLine) \o L_END_LIST_UPS
UPSBlock(recs) == L_BEGIN_LIST_UPS \o UPSBody(recs)

\* VAR <dev> <name> "<value>"; a record whose value is None is sent malformed,
\* without the quoted part
VarLine(dev, rec) ==
    L_VAR_ \o dev \o <<SPACE>> \o rec[1]
           \o (IF rec[2] = None THEN <<>> ELSE <<SPACE>> \o Quoted(rec[2])) \o NL
VarBody(endlit, dev, recs) ==
    LET Line(rec) == VarLine(dev, rec) IN Join(recs, Line) \o endlit \o dev \o NL
VarBlock(beginlit, endlit, dev, recs) ==
    beginlit \o dev \o NL \o VarBody(endlit, dev, recs)

\* CMD <dev> <name>
CmdLine(dev, rec) == L_CMD_ \o dev \o <<SPACE>> \o rec[1] \o NL
CmdBody(dev, recs) ==
    LET Line(rec) == CmdLine(dev, rec) IN Join(recs, Line) \o L_END_LIST_CMD_ \o dev \o NL
CmdBlock(dev, recs) == L_BEGIN_LIST_CMD_ \o dev \o NL \o CmdBody(dev, recs)

\* CMDDESC <dev> <name> "<desc>", or an error line when the query fails
CmdDescLine(dev, rec) ==
    IF rec[2] = None THEN ERR_INVALID_VALUE
    ELSE L_CMDDESC_ \o dev \o <<SPACE>> \o rec[1] \o <<SPACE>> \o Quoted(rec[2]) \o NL
CmdDescLines(dev, recs) == [i \in 1..Len(recs) |-> CmdDescLine(dev, recs[i])]

\* CLIENT <host> <dev>, in a block of kind CLIENTS [<dev>]
ClientLine(rec) == L_CLIENT \o <<SPACE>> \o rec[1] \o <<SPACE>> \o rec[2] \o NL
ClientsKind(filter) == IF filter = <<>> THEN <<>> ELSE <<SPACE>> \o filter
ClientsBody(filter, recs) ==
    Join(recs, ClientLine) \o SliceTo(L_END_LIST_CLIENTS, -1) \o ClientsKind(filter) \o NL
ClientsBlock(filter, recs) ==
    SliceTo(L_BEGIN_LIST_CLIENTS, -1) \o ClientsKind(filter) \o NL \o ClientsBody(filter, recs)

\* what the server sent during a call: the answers in order, and the records
\* they were built from (reg: the device registry, recs: the body records)
Sent(kind, resps, reg, recs) == [kind |-> kind, resps |-> resps, reg |-> reg, recs |-> recs]

\* an answer that is one line
LineScripts == {Sent("line", <<l>>, <<>>, <<>>) : l \in SrvLines}

UPSScripts ==
    {Sent("block", <<UPSBlock(recs)>>, recs, <<>>) : recs \in RecSeqs(Devs \X Vals)}

\* the device registries a lookup is answered with
Registries ==
    {<<>>, << <<<<"d">>, <<"x">>>> >>, << <<<<"e">>, <<"x">>>> >>,
     << <<<<"d">>, <<"x">>>>, <<<<"e">>, <<"x">>>> >>}

\* a block that echoes the requested device, or an empty block for another one
VarScripts(beginlit, endlit, ups) ==
    {Sent("block", <<VarBlock(beginlit, endlit, ups, recs)>>, <<>>, recs) :
        recs \in RecSeqs(Names \X (Vals \cup {None}))}
    \cup {Sent("other", <<VarBlock(beginlit, endlit, dev, <<>>)>>, <<>>, <<>>) :
            dev \in Devs \ {ups}}

\* a query beyond those of the listed commands is answered with an error line
CmdScripts(ups) ==
    {Sent("block", <<CmdBlock(ups, recs)>> \o CmdDescLines(ups, recs)
                       \o <<ERR_INVALID_VALUE>>, <<>>, recs) :
        recs \in RecSeqs(Names \X {<<"x", " ", "x">>, None})}
    \cup {Sent("other", <<CmdBlock(dev, <<>>)>>, <<>>, <<>>) : dev \in Devs \ {ups}}

ClientsScripts(filter) ==
    {Sent("block", <<ClientsBlock(filter, recs)>>, <<>>, recs) :
        recs \in RecSeqs(Hosts \X Devs)}

\* a filtered client enumeration is answered twice: the device lookup, then
\* the client list
LookupScripts(filter) ==
    {Sent(c.kind, u.resps \o c.resps, u.reg, c.recs) :
        u \in {Sent("block", <<UPSBlock(reg)>>, reg, <<>>) : reg \in Registries},
        c \in ClientsScripts(filter) \cup LineScripts}
    \cup LineScripts

NoCall ==
    [op |-> "", args |-> <<>>, sent |-> Sent("none", <<>>, <<>>, <<>>),
     pre |-> <<>>, busy |-> FALSE, out |-> Return(NoRet)]

\* the caller holds no earlier result
NoPrev == [seen |-> FALSE, log |-> <<>>, out |-> Return(NoRet)]

-----------------------------------------------------------------------------
(* The state machine *)

Init ==
    /\ self = ClassDefaults
    /\ state = "Disconnected"
    /\ inbuf = <<>>
    /\ log = <<>>
    /\ last = NoCall
    /\ pc = "idle"
    /\ outstanding = FALSE
    /\ prev = NoPrev

\* the caller runs method op with arguments args while the server plays sent;
\* h is what the method did; a result the caller still holds is kept beside
\* the new one
Call(op, args, sent, h) ==
    /\ inbuf' = h.tr.inbuf
    /\ log' = h.tr.log
    /\ last' = [op |-> op, args |-> args, sent |-> sent, pre |-> inbuf,
                busy |-> outstanding, out |-> h.out]
    /\ pc' = IF h.out.kind = "hang" THEN "hung" ELSE "returned"
    /\ outstanding' = IF h.tr.log = <<>> THEN outstanding
                      ELSE h.tr.log[Len(h.tr.log)].t = "w"
    /\ prev' = IF pc = "returned" THEN [seen |-> TRUE, log |-> log, out |-> last.out]
               ELSE NoPrev

CanCall == pc = "idle" /\ state = "Ready" /\ Len(inbuf) <= MaxPending

DoConstruct ==
    /\ pc = "idle" /\ state = "Disconnected"
    /\ \E login \in Logins, password \in Passwords, connected \in BOOLEAN,
          a1 \in SrvLines \cup {<<>>}, a2 \in SrvLines \cup {<<>>} :
          LET h == Construct(Transport(inbuf, <<a1, a2>>), login, password, connected)
          IN  /\ Call("__init__", <<login, password>>,
                      Sent("line", <<a1, a2>>, <<>>, <<>>), h)
              /\ self' = InitFields(login, password, connected)
              /\ state' = IF h.out.kind = "return" THEN "Ready" ELSE "Failed"

DoDel ==
    /\ pc = "idle" /\ state \in {"Ready", "Failed"}
    /\ Call("__del__", <<>>, Sent("none", <<>>, <<>>, <<>>),
            Del(Transport(inbuf, <<>>), self.srv_handler))
    /\ state' = "Closed"
    /\ UNCHANGED self

DoGetUPSList ==
    /\ CanCall
    /\ \E s \in UPSScripts \cup LineScripts :
          Call("GetUPSList", <<>>, s, GetUPSList(Transport(inbuf, s.resps)))
    /\ UNCHANGED <<self, state>>

\* a second enumeration right after one that ended normally or with an
\* exception; the server repeats its answer or sends one line
DoGetUPSListAgain ==
    /\ pc = "returned" /\ state = "Ready" /\ Len(inbuf) <= MaxPending
    /\ last.op = "GetUPSList"
    /\ \E s \in {last.sent} \cup LineScripts :
          Call("GetUPSList", <<>>, s, GetUPSList(Transport(inbuf, s.resps)))
    /\ UNCHANGED <<self, state>>

DoGetUPSVars ==
    /\ CanCall
    /\ \E ups \in Devs :
       \E s \in VarScripts(L_BEGIN_LIST_VAR_, L_END_LIST_VAR_, ups) \cup LineScripts :
          Call("GetUPSVars", <<ups>>, s, GetUPSVars(Transport(inbuf, s.resps), ups))
    /\ UNCHANGED <<self, state>>

DoGetUPSCommands ==
    /\ CanCall
    /\ \E ups \in Devs :
       \E s \in CmdScripts(ups) \cup LineScripts :
          Call("GetUPSCommands", <<ups>>, s, GetUPSCommands(Transport(inbuf, s.resps), ups))
    /\ UNCHANGED <<self, state>>

DoGetRWVars ==
    /\ CanCall
    /\ \E ups \in Devs :
       \E s \in VarScripts(L_BEGIN_LIST_RW_, L_END_LIST_RW_, ups) \cup LineScripts :
          Call("GetRWVars", <<ups>>, s, GetRWVars(Transport(inbuf, s.resps), ups))
    /\ UNCHANGED <<self, state>>

DoSetRWVar ==
    /\ CanCall
    /\ \E ups \in Devs, var \in Names, value \in SetValues, s \in LineScripts :
          Call("SetRWVar", <<ups, var, value>>, s,
               SetRWVar(Transport(inbuf, s.resps), ups, var, value))
    /\ UNCHANGED <<self, state>>

DoRunUPSCommand ==
    /\ CanCall
    /\ \E ups \in Devs, command \in Names, s \in LineScripts :
          Call("RunUPSCommand", <<ups, command>>, s,
               RunUPSCommand(Transport(inbuf, s.resps), ups, command))
    /\ UNCHANGED <<self, state>>

DoFSD ==
    /\ CanCall
    /\ \E ups \in Devs, a1 \in SrvLines, a2 \in SrvLines :
          Call("FSD", <<ups>>, Sent("line", <<a1, a2>>, <<>>, <<>>),
               FSD(Transport(inbuf, <<a1, a2>>), ups))
    /\ UNCHANGED <<self, state>>

DoHelp ==
    /\ CanCall
    /\ \E s \in LineScripts : Call("help", <<>>, s, help(Transport(inbuf, s.resps)))
    /\ UNCHANGED <<self, state>>

DoVer ==
    /\ CanCall
    /\ \E s \in LineScripts : Call("ver", <<>>, s, ver(Transport(inbuf, s.resps)))
    /\ UNCHANGED <<self, state>>

DoListClients ==
    /\ CanCall
    /\ \E ups \in Devs \cup {None, <<>>} :
       \E s \in IF ups \in Devs THEN LookupScripts(ups)
                ELSE ClientsScripts(<<>>) \cup LineScripts :
          Call("ListClients", <<ups>>, s, ListClients(Transport(inbuf, s.resps), ups))
    /\ UNCHANGED <<self, state>>

\* the caller takes the result (or the exception) and is free to call again
Resume ==
    /\ pc = "returned"
    /\ pc' = "idle"
    /\ last' = NoCall
    /\ log' = <<>>
    /\ prev' = NoPrev
    /\ UNCHANGED <<self, state, inbuf, outstanding>>

Next ==
    \/ DoConstruct
    \/ DoDel
    \/ DoGetUPSList
    \/ DoGetUPSListAgain
    \/ DoGetUPSVars
    \/ DoGetUPSCommands
    \/ DoGetRWVars
    \/ DoSetRWVar
    \/ DoRunUPSCommand
    \/ DoFSD
    \/ DoHelp
    \/ DoVer
    \/ DoListClients
    \/ Resume

Spec == Init /\ [][Next]_vars

TypeOK ==
    /\ state \in {"Disconnected", "Ready", "Failed", "Closed"}
    /\ pc \in {"idle", "returned", "hung"}
    /\ last.out.kind \in {"return", "raise", "hang"}

-----------------------------------------------------------------------------
(* Properties *)

\* the lines written, and the byte strings read, during the current call
Writes == [i \in 1..Len(SelectSeq(log, LAMBDA e : e.t = "w")) |->
              SelectSeq(log, LAMBDA e : e.t = "w")[i].data]
Reads == [i \in 1..Len(SelectSeq(log, LAMBDA e : e.t = "r")) |->
              SelectSeq(log, LAMBDA e : e.t = "r")[i].data]

W(line) == [t |-> "w", data |-> line]
R(line) == [t |-> "r", data |-> line]

Done(op) == pc = "returned" /\ last.op = op

HasQuote(v) == \E i \in 1..Len(v) : v[i] = QUOTE

\* record i is the last one of recs with its key
LastOfKey(recs, i) == \A j \in (i + 1)..Len(recs) : recs[j][1] # recs[i][1]

\* the first answer that does not start with OK, 0 if there is none
FirstRejected(reads) ==
    LET bad == {i \in 1..Len(reads) : Slice(reads[i], 0, 2) # L_OK}
    IN  IF bad = {} THEN 0 ELSE CHOOSE i \in bad : \A j \in bad : i <= j

\* C1: a construction with a username succeeds and leaves the session Ready
\* when every handshake answer starts with OK; when an answer does not, it
\* fails with that answer (newline removed) as the error, nothing is written
\* after the rejected answer, and no operation ever runs on the session.
C1_Handshake ==
    /\ (Done("__init__") /\ last.args[1] # None /\ self.srv_handler # None) =>
          LET k == FirstRejected(Reads)
          IN  /\ log[1] = W(L_USERNAME_ \o last.args[1] \o NL)
              /\ k = 0 => last.out = Return(NoRet) /\ state = "Ready"
              /\ k # 0 => /\ last.out = Raise("PyNUTError", Remove(Reads[k], "\n"))
                          /\ log[Len(log)] = R(Reads[k])
                          /\ Len(Reads) = k
                          /\ state = "Failed"
    /\ state # "Ready" => last.op \in {"", "__init__", "__del__"}

\* a rejected USERNAME although a password was supplied
C1_Witness ==
    /\ Done("__init__") /\ last.args[2] # None
    /\ log = <<W(L_USERNAME_ \o <<"u">> \o NL), R(ERR_ACCESS_DENIED)>>
    /\ last.out.exc = "PyNUTError" /\ state = "Failed"

\* C2: when the answer to MASTER <dev> is anything but "OK MASTER-GRANTED\n",
\* FSD fails with the master-privilege error and writes no FSD line.
C2_MasterRefused ==
    (Done("FSD") /\ Len(log) >= 2 /\ log[2].data # L_OK_MASTER_GRANTED) =>
        /\ log[1] = W(L_MASTER_ \o last.args[1] \o NL)
        /\ last.out = Raise("PyNUTError", L_MasterUnavailable)
        /\ \A i \in 1..Len(Writes) : SliceTo(Writes[i], 3) # SliceTo(L_FSD_, 3)

\* MASTER answered with a plain OK
C2_Witness ==
    /\ Done("FSD") /\ Len(log) = 2 /\ log[2] = R(L_OK_NL)
    /\ last.out.msg = L_MasterUnavailable

\* C3: when MASTER <dev> is answered with "OK MASTER-GRANTED\n", FSD writes
\* exactly "FSD <dev>\n", reads one line, and returns OK if that line is
\* "OK FSD-SET\n", else fails with the received line.
C3_FSDSuccessPath ==
    (Done("FSD") /\ Len(log) >= 2 /\ log[2].data = L_OK_MASTER_GRANTED) =>
        /\ Len(log) = 4
        /\ log[3] = W(L_FSD_ \o last.args[1] \o NL)
        /\ log[4].t = "r"
        /\ IF log[4].data = L_OK_FSD_SET
           THEN last.out = Return(RetStr(L_OK))
           ELSE last.out = Raise("PyNUTError", Remove(log[4].data, "\n"))

\* C4: SetRWVar writes "SET VAR <dev> <name> <value>\n", reads one line and
\* returns OK on "OK\n"; on any other line it fails with that line, trailing
\* newline stripped, as the error detail.
C4_SetVarDetail ==
    Done("SetRWVar") =>
        /\ Len(log) = 2
        /\ log[1] = W(L_SET_VAR_ \o last.args[1] \o <<SPACE>> \o last.args[2]
                               \o <<SPACE>> \o last.args[3] \o NL)
        /\ log[2].t = "r"
        /\ IF log[2].data = L_OK_NL
           THEN last.out = Return(RetStr(L_OK))
           ELSE last.out = Raise("PyNUTError", SliceTo(log[2].data, -1))

\* the lookup of a filtered client enumeration read the registry the server
\* sent, and the filter is not in it
UnknownFilterLookup ==
    /\ Done("ListClients") /\ last.args[1] \in Devs
    /\ Len(log) >= 3
    /\ log[2] = R(L_BEGIN_LIST_UPS) /\ log[3] = R(UPSBody(last.sent.reg))
    /\ \A i \in 1..Len(last.sent.reg) : last.sent.reg[i][1] # last.args[1]

ClientsMap(recs) ==
    [dev \in {recs[i][2] : i \in 1..Len(recs)} |->
        LET mine == SelectSeq(recs, LAMBDA r : r[2] = dev)
        IN  [i \in 1..Len(mine) |-> mine[i][1]]]

\* C6: the default call of ListClients (no filter) writes "LIST CLIENTS\n"
\* and, for a well-formed CLIENTS block, returns the mapping from each device
\* to its hosts in the order listed, duplicates kept.
C6_DefaultClients ==
    (Done("ListClients") /\ last.args[1] = None) =>
        /\ Len(log) >= 1 /\ log[1] = W(L_LIST_CLIENTS)
        /\ (last.sent.kind = "block" /\ last.pre = <<>>) =>
              last.out = Return(RetDict(ClientsMap(last.sent.recs)))

\* the mapping id -> description of a registry with distinct ids
UPSMap(recs) ==
    [id \in {recs[i][1] : i \in 1..Len(recs)} |->
        (CHOOSE r \in {recs[i] : i \in 1..Len(recs)} : r[1] = id)[2]]

DistinctKeys(recs) == \A i, j \in 1..Len(recs) : recs[i][1] = recs[j][1] => i = j

\* C7: GetUPSList writes "LIST UPS\n"; for a UPS block whose lines have
\* distinct ids and quote-free descriptions it returns exactly the mapping
\* id -> description; a first line other than "BEGIN LIST UPS\n" makes it
\* fail with that line and read nothing more.
C7_DeviceEnumeration ==
    Done("GetUPSList") =>
        /\ log[1] = W(L_LIST_UPS)
        /\ log[2].data # L_BEGIN_LIST_UPS =>
              /\ last.out = Raise("PyNUTError", Remove(log[2].data, "\n"))
              /\ Len(log) = 2
        /\ ( /\ Len(log) = 3 /\ log[2] = R(L_BEGIN_LIST_UPS)
             /\ log[3] = R(UPSBody(last.sent.reg))
             /\ DistinctKeys(last.sent.reg)
             /\ \A i \in 1..Len(last.sent.reg) : ~HasQuote(last.sent.reg[i][2]) ) =>
              last.out = Return(RetDict(UPSMap(last.sent.reg)))

\* two devices, one description with leading and trailing spaces
C7_Witness ==
    /\ Done("GetUPSList") /\ Len(last.sent.reg) = 2 /\ DistinctKeys(last.sent.reg)
    /\ last.sent.reg[1][2] = <<" ", "x", " ">>
    /\ ~HasQuote(last.sent.reg[2][2])
    /\ log[3] = R(UPSBody(last.sent.reg))
    /\ last.out.kind = "return" /\ Cardinality(DOMAIN last.out.ret.dict) = 2

\* a VAR block with at least one body line, every line of the shape
\* VAR <dev> <name> "<value>", was read in answer to LIST VAR <dev>
ReadVarBlock ==
    /\ Done("GetUPSVars") /\ Len(log) = 3
    /\ Len(last.sent.recs) >= 1
    /\ \A i \in 1..Len(last.sent.recs) : last.sent.recs[i][2] # None
    /\ log[2] = R(L_BEGIN_LIST_VAR_ \o last.args[1] \o NL)
    /\ log[3] = R(VarBody(L_END_LIST_VAR_, last.args[1], last.sent.recs))

\* C8: in a VAR block with at least one body line, every line whose value has
\* no quote character yields the entry name -> value with the value
\* unchanged, spaces included (for a repeated name, the last line counts).
C8_QuotingLaw ==
    ReadVarBlock =>
        /\ last.out.kind = "return" /\ last.out.ret.type = "dict"
        /\ \A i \in 1..Len(last.sent.recs) :
              (~HasQuote(last.sent.recs[i][2]) /\ LastOfKey(last.sent.recs, i)) =>
                  /\ last.sent.recs[i][1] \in DOMAIN last.out.ret.dict
                  /\ last.out.ret.dict[last.sent.recs[i][1]] = last.sent.recs[i][2]

\* values with an embedded space and with leading and trailing spaces
C8_Witness ==
    /\ ReadVarBlock /\ Len(last.sent.recs) = 2
    /\ last.sent.recs[1] = <<<<"a">>, <<"x", " ", "x">>>>
    /\ last.sent.recs[2] = <<<<"b">>, <<" ", "x", " ">>>>
    /\ last.out.ret.dict[<<"b">>] = <<" ", "x", " ">>

\* a CMD block was read in answer to LIST CMD <dev> and every description
\* query was answered by the server's line for that command
ReadCmdBlock ==
    /\ Done("GetUPSCommands") /\ last.sent.kind = "block" /\ last.pre = <<>>
    /\ Len(log) = 3 + 2 * Len(last.sent.recs)
    /\ log[3] = R(CmdBody(last.args[1], last.sent.recs))
    /\ \A i \in 1..Len(last.sent.recs) :
          log[3 + 2 * i] = R(CmdDescLine(last.args[1], last.sent.recs[i]))

\* C9: for each command of the CMD block whose description query is answered
\* with CMDDESC <dev> <name> "<desc>", the result maps the name to <desc>; the
\* name stands in only when the query fails.
C9_CommandDescriptions ==
    ReadCmdBlock =>
        /\ last.out.kind = "return"
        /\ \A i \in 1..Len(last.sent.recs) :
              LastOfKey(last.sent.recs, i) =>
                  /\ last.sent.recs[i][1] \in DOMAIN last.out.ret.dict
                  /\ last.out.ret.dict[last.sent.recs[i][1]] =
                        IF last.sent.recs[i][2] # None THEN last.sent.recs[i][2]
                        ELSE last.sent.recs[i][1]

\* C10: when the first line read after "LIST VAR <dev>\n" is not
\* "BEGIN LIST VAR <dev>\n", GetUPSVars does not raise: it returns the string
\* "ERR" and reads nothing more.
C10_VarsSentinel ==
    ( /\ last.op = "GetUPSVars" /\ Len(log) >= 2
      /\ log[2].data # L_BEGIN_LIST_VAR_ \o last.args[1] \o NL ) =>
        /\ pc = "returned"
        /\ log[1] = W(L_LIST_VAR_ \o last.args[1] \o NL)
        /\ last.out = Return(RetStr(L_ERR))
        /\ Len(log) = 2

\* an error line in place of the BEGIN line
C10_Witness ==
    /\ Done("GetUPSVars") /\ log[2] = R(ERR_ACCESS_DENIED)
    /\ last.out.ret.str = L_ERR

\* C11: disposing of a session whose transport is open writes a LOGOUT line,
\* and no error of the teardown reaches the caller, with or without a
\* transport.
C11_DisposalLogout ==
    Done("__del__") =>
        /\ last.out = Return(NoRet)
        /\ self.srv_handler # None => Writes = <<L_LOGOUT>>

\* C13: a handshake without a username writes nothing, even with a password;
\* a PASSWORD line is written only after a USERNAME line that was answered
\* with a line starting with OK.
C13_PasswordNeedsUsername ==
    Done("__init__") =>
        /\ last.args[1] = None => Writes = <<>>
        /\ \A i \in 1..Len(log) :
              (log[i].t = "w" /\ SliceTo(log[i].data, Len(L_PASSWORD_)) = L_PASSWORD_) =>
                  /\ i = 3
                  /\ SliceTo(log[1].data, Len(L_USERNAME_)) = L_USERNAME_
                  /\ log[2].t = "r" /\ Slice(log[2].data, 0, 2) = L_OK

\* an RW block was read in answer to LIST RW <dev>
ReadRWBlock ==
    /\ Done("GetRWVars") /\ Len(log) = 3
    /\ log[2] = R(L_BEGIN_LIST_RW_ \o last.args[1] \o NL)
    /\ log[3] = R(VarBody(L_END_LIST_RW_, last.args[1], last.sent.recs))

\* C14: for an RW block mixing well-formed lines and lines without a quote,
\* GetRWVars does not raise and returns an entry for every well-formed line,
\* before or after a malformed one.
C14_SkipsOnlyMalformed ==
    ReadRWBlock =>
        /\ last.out.kind = "return" /\ last.out.ret.type = "dict"
        /\ \A i \in 1..Len(last.sent.recs) :
              last.sent.recs[i][2] # None =>
                  last.sent.recs[i][1] \in DOMAIN last.out.ret.dict

\* C15: a VAR block with no body line gives an empty mapping and no error.
C15_EmptyVarBlock ==
    ( /\ Done("GetUPSVars") /\ Len(log) = 3
      /\ log[2] = R(L_BEGIN_LIST_VAR_ \o last.args[1] \o NL)
      /\ log[3] = R(L_END_LIST_VAR_ \o last.args[1] \o NL) ) =>
        last.out = Return(RetDict(EmptyDict))

\* the lookup of a filtered client enumeration read a registry that holds the
\* filter, and the server answers the client request with a CLIENTS <dev>
\* block for that device
KnownFilterLookup ==
    /\ Done("ListClients") /\ last.args[1] \in Devs
    /\ last.sent.kind = "block" /\ last.pre = <<>>
    /\ Len(log) >= 3
    /\ log[2] = R(L_BEGIN_LIST_UPS) /\ log[3] = R(UPSBody(last.sent.reg))
    /\ \E i \in 1..Len(last.sent.reg) : last.sent.reg[i][1] = last.args[1]
    /\ \A i \in 1..Len(last.sent.recs) : last.sent.recs[i][2] = last.args[1]

\* C17: with a filter that is one of the server's devices, ListClients writes
\* "LIST CLIENTS <dev>\n", accepts the block of kind CLIENTS <dev> and returns
\* the mapping from that device to its hosts in order.
C17_FilteredClients ==
    KnownFilterLookup =>
        /\ Writes = <<L_LIST_UPS, L_LIST_CLIENTS_ \o last.args[1] \o NL>>
        /\ last.out = Return(RetDict(ClientsMap(last.sent.recs)))

\* the text between the first and the second quote of a quoted value as sent
BetweenQuotes(v) == Split(v, QUOTE)[1]

\* the body records of the quote-delimited block read by the current call,
\* when it read one whose lines all carry a quoted value
QuotedBlockRead ==
    \/ /\ Done("GetUPSList") /\ Len(log) = 3 /\ log[2] = R(L_BEGIN_LIST_UPS)
       /\ log[3] = R(UPSBody(last.sent.reg))
    \/ /\ ReadVarBlock
    \/ /\ ReadRWBlock /\ Len(last.sent.recs) >= 1
       /\ \A i \in 1..Len(last.sent.recs) : last.sent.recs[i][2] # None

QuotedRecs == IF last.op = "GetUPSList" THEN last.sent.reg ELSE last.sent.recs

\* C18: in device, variable and writable-variable enumeration, a body line
\* whose value holds a quote (that is, with content after the second quote)
\* still parses: key = text before the first quote, value = text between the
\* first and second quote, the rest ignored, and the operation does not fail.
C18_RestIgnored ==
    QuotedBlockRead =>
        /\ last.out.kind = "return"
        /\ \A i \in 1..Len(QuotedRecs) :
              LastOfKey(QuotedRecs, i) =>
                  /\ QuotedRecs[i][1] \in DOMAIN last.out.ret.dict
                  /\ last.out.ret.dict[QuotedRecs[i][1]] = BetweenQuotes(QuotedRecs[i][2])

\* C16: the number of GET CMDDESC requests written equals the number of body
\* lines of the CMD block; for a block with no body line the result is the
\* empty mapping and no GET CMDDESC is written.
C16_OneQueryPerCommand ==
    ( /\ Done("GetUPSCommands") /\ Len(log) >= 3
      /\ log[2] = R(L_BEGIN_LIST_CMD_ \o last.args[1] \o NL)
      /\ log[3] = R(CmdBody(last.args[1], last.sent.recs)) ) =>
        /\ Cardinality({i \in 1..Len(log) :
                /\ log[i].t = "w"
                /\ SliceTo(log[i].data, Len(L_GET_CMDDESC_)) = L_GET_CMDDESC_})
              = Len(last.sent.recs)
        /\ last.sent.recs = <<>> => last.out = Return(RetDict(EmptyDict))

\* C12: the client never writes a request while the answer to its previous
\* request is unread: no two writes follow each other without a read between
\* them, within a call or from one call to the next.
C12_OneOutstanding ==
    /\ \A i \in 1..(Len(log) - 1) : ~(log[i].t = "w" /\ log[i + 1].t = "w")
    /\ (log # <<>> /\ log[1].t = "w") => ~last.busy

\* C20: when the stream is in step at the start of a call and the server
\* answers each request with one error line or with the complete response to
\* that request, every byte the server sent has been read when the call
\* returns or raises, so the next call starts in step as well.
C20_StreamInStep ==
    (pc = "returned" /\ last.pre = <<>> /\ last.sent.kind \in {"line", "block"}) =>
        inbuf = <<>>

\* the byte strings read in a sequence of transport events
ReadsOf(events) == SelectSeq(events, LAMBDA e : e.t = "r")

C19_FreshAndSame ==
    /\ Done("GetUPSList") => (log # <<>> /\ log[1] = W(L_LIST_UPS))
    /\ (Done("GetUPSList") /\ prev.seen /\ ReadsOf(prev.log) = ReadsOf(log)) =>
           last.out = prev.out

\* C19: every device enumeration starts by writing LIST UPS, two successive
\* enumerations that read the same bytes have the same outcome (the same
\* mapping), and once the object is constructed no step changes its fields.
C19_NoCache ==
    /\ []C19_FreshAndSame
    /\ [][state # "Disconnected" => self' = self]_vars

C19_Witness ==
    /\ Done("GetUPSList") /\ prev.seen
    /\ ReadsOf(prev.log) = ReadsOf(log)
    /\ log[1] = W(L_LIST_UPS) /\ prev.log[1] = W(L_LIST_UPS)
    /\ last.out.kind = "return" /\ last.out.ret.dict # EmptyDict
    /\ last.out = prev.out
====
